---- MODULE Spec2Model ----
(***************************************************************************)
(* Model of the Bluetooth device acquisition client                        *)
(* (package bluetooth: Client, SearchAndConnect, WaitConnect,              *)
(* tryCacheConnect, tryDiscoveryConnect, tryConnectForever).               *)
(*                                                                         *)
(* Processes:                                                              *)
(*   - the caller of SearchAndConnect (pcCaller), which runs the           *)
(*     validation and the synchronous cache scan;                          *)
(*   - the discovery goroutine spawned on ErrBtDeviceNotFound (pcDisc);    *)
(*   - the tryConnectForever goroutine (pcRetry);                          *)
(*   - the callers of WaitConnect (pcWait).                                *)
(* Strings are sequences of one-character strings so that normalisation    *)
(* and pattern matching are computed.                                      *)
(***************************************************************************)
EXTENDS Integers, Sequences, FiniteSets, TLC

\* ------------------------------------------------------------------ bounds
MaxCache == 3       \* longest device list GetDevices returns
MaxEvents == 3      \* most discovery events delivered on discoverChan
MaxFails == 2       \* most Connect failures before a Connect succeeds
MaxCoolDowns == 2   \* the cooldown counter saturates here
NumWaiters == 2     \* callers of WaitConnect

\* ------------------------------------------------------------- data domain
Nil == [nil |-> TRUE]          \* a nil *device.Device1

Empty == << >>

\* Addresses and names the adapter reports for its devices.
Devices ==
  { [addr |-> <<"A", ":", "B">>, name |-> <<"k", "x">>],
    [addr |-> <<"A", ":", "B">>, name |-> <<"x", "k">>],
    [addr |-> <<"a", ":", "b">>, name |-> <<"x", "k">>] }

\* Values a caller may pass as SearchTargetConfig.DeviceAddress.
AddressInputs ==
  { Empty, <<"a", "-", "b">>, <<"A", ":", "B">>, <<"a", "b">> }

\* Values a caller may pass as SearchTargetConfig.DeviceRegex.
RegexInputs ==
  { Empty, <<"k">>, <<"k", "$">>, <<"(">> }

Configs == [DeviceAddress : AddressInputs, DeviceRegex : RegexInputs]

NoConfig == [DeviceAddress |-> Empty, DeviceRegex |-> Empty]

Waiters == 1..NumWaiters

\* ------------------------------------------------------------ pure helpers
HexDigits == {"a", "b", "c", "d", "A", "B", "C", "D"}

ToUpper(c) ==
  CASE c = "a" -> "A"
    [] c = "b" -> "B"
    [] c = "c" -> "C"
    [] c = "d" -> "D"
    [] OTHER -> c

\* util.CleanMacAddress: ok is FALSE for a malformed address; otherwise mac
\* is the canonical form (upper case, ':' separator).  Addresses are scaled
\* to two one-digit octets.
MacWellFormed(m) ==
  /\ Len(m) = 3
  /\ m[1] \in HexDigits
  /\ m[2] \in {":", "-"}
  /\ m[3] \in HexDigits

CleanMacAddress(m) ==
  IF MacWellFormed(m)
    THEN [ok |-> TRUE, mac |-> <<ToUpper(m[1]), ":", ToUpper(m[3])>>]
    ELSE [ok |-> FALSE, mac |-> Empty]

\* regexp.Compile on the pattern fragment used here: literals, a trailing
\* '$' anchor, and '(' which is an unbalanced group (a compile error).
RegexCompiles(p) == \A i \in 1..Len(p) : p[i] # "("

RegexAnchored(p) == Len(p) > 0 /\ p[Len(p)] = "$"

RegexLiteral(p) == IF RegexAnchored(p) THEN SubSeq(p, 1, Len(p) - 1) ELSE p

\* rxp.MatchString(name): unanchored search for the literal, or a suffix
\* match when the pattern ends in '$'.
RegexMatchString(p, name) ==
  LET lit == RegexLiteral(p)
      n == Len(lit)
      starts == IF RegexAnchored(p)
                  THEN {Len(name) - n + 1}
                  ELSE 1..(Len(name) - n + 1)
  IN \E s \in starts :
       /\ s >= 1
       /\ s + n - 1 <= Len(name)
       /\ SubSeq(name, s, s + n - 1) = lit

\* --------------------------------------------------------------- variables
VARIABLES
  pcCaller,        \* position of the caller of SearchAndConnect
  retVal,          \* what SearchAndConnect returned ("none" while it has not)
  config,          \* SearchAndConnect's config (DeviceAddress cleaned in place)
  matchFunc,       \* which closure matchFunc is: "none", "mac" or "name"
  devices,         \* tryCacheConnect's local device list
  idx,             \* position of the range loop over devices
  cacheErr,        \* what tryCacheConnect returned
  dev,             \* cl.dev, the current-candidate slot
  mu,              \* cl.mu: TRUE while some goroutine holds the lock
  pcDisc,          \* position of the discovery goroutine
  discErr,         \* what tryDiscoveryConnect returned (it is only logged)
  pcRetry,         \* position of the tryConnectForever goroutine
  retryErr,        \* tryConnectForever's loop variable err ("none", "nil", "err")
  connectPlan,     \* how the selected device's Connect behaves
  pcWait,          \* position of each WaitConnect caller
  \* bookkeeping of calls made on the collaborators
  getDevicesCalls, \* calls of adapter.GetDevices
  evaluated,       \* indices of devices the running cache scan evaluated
  discoverCalls,   \* calls of api.Discover
  sessions,        \* discovery sessions started (api.Discover succeeded)
  cancelCalls,     \* calls of cl.cancelDiscoverFn
  received,        \* events the running discovery scan took from discoverChan
  loopsStarted,    \* tryConnectForever goroutines launched
  connectCalls,    \* calls of cl.dev.Connect
  connectFails,    \* Connect calls that returned an error
  connectOks,      \* Connect calls that returned nil
  coolDowns,       \* completed time.Sleep(coolDown) waits (saturating)
  signals          \* values handed over on cl.done

vars ==
  << pcCaller, retVal, config, matchFunc, devices, idx, cacheErr, dev, mu,
     pcDisc, discErr, pcRetry, retryErr, connectPlan, pcWait,
     getDevicesCalls, evaluated, discoverCalls, sessions, cancelCalls,
     received, loopsStarted, connectCalls, connectFails, connectOks,
     coolDowns, signals >>

callerVars == << pcCaller, retVal, config, matchFunc, devices, idx, cacheErr,
                 getDevicesCalls, evaluated >>
discVars == << pcDisc, discErr, discoverCalls, sessions, cancelCalls, received >>
retryVars == << pcRetry, retryErr, connectPlan, loopsStarted, connectCalls,
                connectFails, connectOks, coolDowns, signals >>

\* Device lists adapter.GetDevices may return.
CacheLists == UNION { [1..n -> Devices] : n \in 0..MaxCache }

\* Behaviours of a device's Connect: it fails `fails` times and then
\* succeeds, or it never succeeds.
ConnectPlans ==
  { [succeeds |-> TRUE, fails |-> k] : k \in 0..MaxFails }
    \cup { [succeeds |-> FALSE, fails |-> 0] }

NoPlan == [succeeds |-> FALSE, fails |-> 0]

\* Discovery events: adapter.DeviceDiscovered{Type, Path}; the path is
\* identified with the device found at it.
Events == [Type : {"DeviceRemoved", "DeviceAdded"}, Path : Devices]

\* ------------------------------------------------------------ construction
Init ==
  /\ pcCaller = "idle"
  /\ retVal = "none"
  /\ config = NoConfig
  /\ matchFunc = "none"
  /\ devices = Empty
  /\ idx = 0
  /\ cacheErr = "none"
  /\ dev = Nil
  /\ mu = FALSE
  /\ pcDisc = "none"
  /\ discErr = "none"
  /\ pcRetry = "none"
  /\ retryErr = "none"
  /\ connectPlan = NoPlan
  /\ pcWait = [w \in Waiters |-> "idle"]
  /\ getDevicesCalls = 0
  /\ evaluated = {}
  /\ discoverCalls = 0
  /\ sessions = 0
  /\ cancelCalls = 0
  /\ received = Empty
  /\ loopsStarted = 0
  /\ connectCalls = 0
  /\ connectFails = 0
  /\ connectOks = 0
  /\ coolDowns = 0
  /\ signals = 0

\* ------------------------------------------------------- SearchAndConnect
\* The closure built by the switch: "mac" compares the address with the
\* cleaned config.DeviceAddress, "name" runs the compiled pattern on the name.
MatchFunc(mf, cfg, mac, name) ==
  CASE mf = "mac" -> mac = cfg.DeviceAddress
    [] mf = "name" -> RegexMatchString(cfg.DeviceRegex, name)
    [] OTHER -> FALSE

Matches(d) == MatchFunc(matchFunc, config, d.addr, d.name)

\* Variant of BuildMatchFunc whose switch tests the pattern first.
BuildMatchFuncPatternFirst(cfg) ==
  IF Len(cfg.DeviceRegex) > 0
    THEN IF RegexCompiles(cfg.DeviceRegex)
           THEN [err |-> "nil", matchFunc |-> "name", config |-> cfg]
           ELSE [err |-> "ErrRegexCompile", matchFunc |-> "none", config |-> cfg]
    ELSE IF Len(cfg.DeviceAddress) = 0
      THEN [err |-> "ErrMissingCriterion", matchFunc |-> "none", config |-> cfg]
      ELSE LET r == CleanMacAddress(cfg.DeviceAddress)
           IN IF r.ok
                THEN [err |-> "nil", matchFunc |-> "mac",
                      config |-> [cfg EXCEPT !.DeviceAddress = r.mac]]
                ELSE [err |-> "ErrCleanMac", matchFunc |-> "none",
                      config |-> [cfg EXCEPT !.DeviceAddress = r.mac]]

\* The switch that validates the criteria and builds matchFunc.
BuildMatchFunc(cfg) ==
  IF Len(cfg.DeviceAddress) > 0
    THEN LET r == CleanMacAddress(cfg.DeviceAddress)
         IN IF r.ok
              THEN [err |-> "nil", matchFunc |-> "mac",
                    config |-> [cfg EXCEPT !.DeviceAddress = r.mac]]
              ELSE [err |-> "ErrCleanMac", matchFunc |-> "none",
                    config |-> [cfg EXCEPT !.DeviceAddress = r.mac]]
    ELSE IF Len(cfg.DeviceRegex) = 0
      THEN [err |-> "ErrMissingCriterion", matchFunc |-> "none", config |-> cfg]
      ELSE IF RegexCompiles(cfg.DeviceRegex)
        THEN [err |-> "nil", matchFunc |-> "name", config |-> cfg]
        ELSE [err |-> "ErrRegexCompile", matchFunc |-> "none", config |-> cfg]

\* Variant of AfterValidation that goes on to the scan after an error.
AfterValidationNoReturn(err) == "GetDevices"

\* Where the caller goes once the criteria are judged: it returns the error,
\* or goes on to tryCacheConnect.
AfterValidation(err) == IF err = "nil" THEN "GetDevices" ELSE "returned"

\* SearchAndConnect is called with cfg: validation and predicate construction.
SearchAndConnect(cfg) ==
  /\ pcCaller = "idle"
  /\ LET b == BuildMatchFunc(cfg)
     IN /\ pcCaller' = AfterValidation(b.err)
        /\ retVal' = IF b.err = "nil" THEN "none" ELSE b.err
        /\ config' = IF b.err = "nil" THEN b.config ELSE NoConfig
        /\ matchFunc' = b.matchFunc
  /\ UNCHANGED << devices, idx, cacheErr, getDevicesCalls, evaluated,
                  dev, mu, pcWait >>
  /\ UNCHANGED discVars
  /\ UNCHANGED retryVars

\* `go cl.tryConnectForever(config.ConnectRetryCoolDown)`: a new goroutine
\* at the top of tryConnectForever; plan is how the device's Connect behaves.
GoTryConnectForever(plan) ==
  /\ pcRetry' = "connect"
  /\ retryErr' = "none"
  /\ connectPlan' = plan
  /\ loopsStarted' = loopsStarted + 1
  /\ UNCHANGED << connectCalls, connectFails, connectOks, coolDowns, signals >>

\* tryCacheConnect: cl.adapter.GetDevices() returns an error or a list.
TryCacheConnectGetDevices ==
  /\ pcCaller = "GetDevices"
  /\ getDevicesCalls' = getDevicesCalls + 1
  /\ \E ok \in BOOLEAN :
       IF ok
         THEN \E list \in CacheLists :
                /\ devices' = list
                /\ idx' = 1
                /\ pcCaller' = "cacheLoop"
                /\ cacheErr' = cacheErr
         ELSE /\ cacheErr' = "ErrGetDevices"
              /\ pcCaller' = "dispatch"
              /\ UNCHANGED << devices, idx >>
  /\ UNCHANGED << retVal, config, matchFunc, evaluated, dev, mu, pcWait >>
  /\ UNCHANGED discVars
  /\ UNCHANGED retryVars

\* Variant of CacheOnMatch without the break.
CacheOnMatchNoBreak(d) == [dev |-> d, pc |-> "cacheLoop", idx |-> idx + 1]

\* What one iteration of the range loop does on a device that satisfies
\* matchFunc: break with cl.dev set.
CacheOnMatch(d) == [dev |-> d, pc |-> "cacheAfter", idx |-> idx]

\* ... and on a device that does not: cl.dev = nil, next element.
CacheOnMiss(d) == [dev |-> Nil, pc |-> "cacheLoop", idx |-> idx + 1]

\* tryCacheConnect: one iteration of `for _, cl.dev = range devices`, or the
\* end of the range.
TryCacheConnectLoop ==
  /\ pcCaller = "cacheLoop"
  /\ IF idx > Len(devices)
       THEN /\ pcCaller' = "cacheAfter"
            /\ UNCHANGED << dev, idx, evaluated >>
       ELSE LET d == devices[idx]
                r == IF Matches(d) THEN CacheOnMatch(d) ELSE CacheOnMiss(d)
            IN /\ evaluated' = evaluated \cup {idx}
               /\ dev' = r.dev
               /\ pcCaller' = r.pc
               /\ idx' = r.idx
  /\ UNCHANGED << retVal, config, matchFunc, devices, cacheErr,
                  getDevicesCalls, mu, pcWait >>
  /\ UNCHANGED discVars
  /\ UNCHANGED retryVars

\* The test `cl.dev != nil` after either scan loop.
HasCandidate(d) == d # Nil

\* tryCacheConnect: after the loop, launch the retry loop on a candidate or
\* return ErrBtDeviceNotFound.
TryCacheConnectReturn ==
  /\ pcCaller = "cacheAfter"
  /\ pcCaller' = "dispatch"
  /\ IF HasCandidate(dev)
       THEN /\ \E plan \in ConnectPlans : GoTryConnectForever(plan)
            /\ cacheErr' = "nil"
       ELSE /\ cacheErr' = "ErrBtDeviceNotFound"
            /\ UNCHANGED retryVars
  /\ UNCHANGED << retVal, config, matchFunc, devices, idx, getDevicesCalls,
                  evaluated, dev, mu, pcWait >>
  /\ UNCHANGED discVars

\* Variant of Dispatch without the `return nil` after the go statement: the
\* ErrBtDeviceNotFound branch falls through to the wrapped error.
DispatchFallThrough(err) ==
  CASE err = "nil" -> [ret |-> "nil", spawn |-> FALSE, pc |-> "returned"]
    [] err = "ErrBtDeviceNotFound" ->
         [ret |-> "ErrCacheConnect", spawn |-> TRUE, pc |-> "returned"]
    [] OTHER -> [ret |-> "ErrCacheConnect", spawn |-> FALSE, pc |-> "returned"]

\* Variant of Dispatch that starts the discovery goroutine whatever
\* tryCacheConnect returned.
DispatchAlwaysDiscover(err) ==
  CASE err = "nil" -> [ret |-> "nil", spawn |-> TRUE, pc |-> "returned"]
    [] err = "ErrBtDeviceNotFound" ->
         [ret |-> "nil", spawn |-> TRUE, pc |-> "returned"]
    [] OTHER -> [ret |-> "ErrCacheConnect", spawn |-> TRUE, pc |-> "returned"]

\* Variant of Dispatch without the go statement: the caller runs
\* tryDiscoveryConnect itself and waits for it.
DispatchSynchronous(err) ==
  CASE err = "nil" -> [ret |-> "nil", spawn |-> FALSE, pc |-> "returned"]
    [] err = "ErrBtDeviceNotFound" ->
         [ret |-> "none", spawn |-> TRUE, pc |-> "inDiscovery"]
    [] OTHER -> [ret |-> "ErrCacheConnect", spawn |-> FALSE, pc |-> "returned"]

\* Variant of Dispatch without the errors.Is test: any error of
\* tryCacheConnect starts the discovery goroutine.
DispatchDiscoverOnAnyError(err) ==
  CASE err = "nil" -> [ret |-> "nil", spawn |-> FALSE, pc |-> "returned"]
    [] OTHER -> [ret |-> "nil", spawn |-> TRUE, pc |-> "returned"]

\* Variant of Dispatch that drops an error other than ErrBtDeviceNotFound.
DispatchSwallowError(err) ==
  CASE err = "nil" -> [ret |-> "nil", spawn |-> FALSE, pc |-> "returned"]
    [] err = "ErrBtDeviceNotFound" ->
         [ret |-> "nil", spawn |-> TRUE, pc |-> "returned"]
    [] OTHER -> [ret |-> "nil", spawn |-> FALSE, pc |-> "returned"]

\* What SearchAndConnect does with tryCacheConnect's result: ret is what it
\* returns, spawn whether it starts the discovery goroutine, pc where the
\* caller is afterwards.
Dispatch(err) ==
  CASE err = "nil" -> [ret |-> "nil", spawn |-> FALSE, pc |-> "returned"]
    [] err = "ErrBtDeviceNotFound" ->
         [ret |-> "nil", spawn |-> TRUE, pc |-> "returned"]
    [] OTHER -> [ret |-> "ErrCacheConnect", spawn |-> FALSE, pc |-> "returned"]

\* SearchAndConnect: the result of tryCacheConnect is handled and the call
\* returns; its locals go out of scope.
SearchAndConnectReturn ==
  /\ pcCaller = "dispatch"
  /\ LET r == Dispatch(cacheErr)
     IN /\ retVal' = r.ret
        /\ pcCaller' = r.pc
        /\ pcDisc' = IF r.spawn THEN "start" ELSE pcDisc
  /\ devices' = Empty
  /\ idx' = 0
  /\ evaluated' = {}
  /\ UNCHANGED << config, matchFunc, cacheErr, getDevicesCalls, dev, mu, pcWait >>
  /\ UNCHANGED << discErr, discoverCalls, sessions, cancelCalls, received >>
  /\ UNCHANGED retryVars

\* ---------------------------------------------------- tryDiscoveryConnect
\* api.Discover(cl.adapter, nil) fails (the error is returned and logged by
\* the goroutine) or yields discoverChan and cancelDiscoverFn.
TryDiscoveryConnectStart ==
  /\ pcDisc = "start"
  /\ discoverCalls' = discoverCalls + 1
  /\ \E ok \in BOOLEAN :
       IF ok
         THEN /\ pcDisc' = "recv"
              /\ sessions' = sessions + 1
              /\ discErr' = discErr
         ELSE /\ pcDisc' = "returned"
              /\ discErr' = "ErrDiscoverStart"
              /\ sessions' = sessions
  /\ UNCHANGED << cancelCalls, received, dev, mu, pcWait >>
  /\ UNCHANGED callerVars
  /\ UNCHANGED retryVars

\* What the scan is recorded to have taken from discoverChan: a removed
\* event, an added event whose handle could not be created, or an added
\* event with its device handle.
Received(ev, created) ==
  IF ev.Type = "DeviceRemoved"
    THEN [kind |-> "removed", device |-> Nil]
    ELSE IF created
      THEN [kind |-> "created", device |-> ev.Path]
      ELSE [kind |-> "failed", device |-> Nil]

\* Variant of OnEvent without the DeviceRemoved test: a removed event is
\* treated like an added one.
OnEventRemovedNotIgnored(ev, created) ==
  IF ~created
    THEN [dev |-> Nil, pc |-> "recv"]
    ELSE IF Matches(ev.Path)
      THEN [dev |-> ev.Path, pc |-> "after"]
      ELSE [dev |-> Nil, pc |-> "recv"]

\* Variant of OnEvent without `cl.dev = nil` after a device that does not
\* match.
OnEventNoReset(ev, created) ==
  IF ev.Type = "DeviceRemoved"
    THEN [dev |-> dev, pc |-> "recv"]
    ELSE IF ~created
      THEN [dev |-> Nil, pc |-> "recv"]
      ELSE IF Matches(ev.Path)
        THEN [dev |-> ev.Path, pc |-> "after"]
        ELSE [dev |-> ev.Path, pc |-> "recv"]

\* What the loop body does with one event; created says whether
\* device.NewDevice1(found.Path) succeeds (it returns a nil device with its
\* error).  dev is the new value of cl.dev, pc where the goroutine goes.
OnEvent(ev, created) ==
  IF ev.Type = "DeviceRemoved"
    THEN [dev |-> dev, pc |-> "recv"]
    ELSE IF ~created
      THEN [dev |-> Nil, pc |-> "recv"]
      ELSE IF Matches(ev.Path)
        THEN [dev |-> ev.Path, pc |-> "after"]
        ELSE [dev |-> Nil, pc |-> "recv"]

\* One iteration of `for found := range cl.discoverChan`: the registry
\* delivers event ev.
TryDiscoveryConnectEvent(ev, created) ==
  /\ pcDisc = "recv"
  /\ Len(received) < MaxEvents
  /\ LET r == OnEvent(ev, created)
     IN /\ dev' = r.dev
        /\ pcDisc' = r.pc
  /\ received' = Append(received, Received(ev, created))
  /\ UNCHANGED << discErr, discoverCalls, sessions, cancelCalls, mu, pcWait >>
  /\ UNCHANGED callerVars
  /\ UNCHANGED retryVars

\* The registry closes discoverChan: the range loop ends.
TryDiscoveryConnectClosed ==
  /\ pcDisc = "recv"
  /\ pcDisc' = "after"
  /\ UNCHANGED << discErr, discoverCalls, sessions, cancelCalls, received,
                  dev, mu, pcWait >>
  /\ UNCHANGED callerVars
  /\ UNCHANGED retryVars

\* Variant of CancelOnExit in which cancelDiscoverFn is called after a match
\* only, not deferred.
CancelOnMatchOnly(found) == IF found THEN 1 ELSE 0

\* How often cl.cancelDiscoverFn runs when tryDiscoveryConnect returns after
\* its loop: the call is deferred, so once, whether a candidate was found
\* or not.
CancelOnExit(found) == 1

\* After the loop: launch the retry loop on a candidate or return
\* ErrBtDeviceNotFound; the deferred cl.cancelDiscoverFn() runs, and the
\* goroutine logs the error and ends.
TryDiscoveryConnectReturn ==
  /\ pcDisc = "after"
  /\ pcDisc' = "returned"
  /\ IF HasCandidate(dev)
       THEN /\ \E plan \in ConnectPlans : GoTryConnectForever(plan)
            /\ discErr' = "nil"
       ELSE /\ discErr' = "ErrBtDeviceNotFound"
            /\ UNCHANGED retryVars
  /\ cancelCalls' = cancelCalls + CancelOnExit(HasCandidate(dev))
  /\ received' = Empty
  /\ UNCHANGED << discoverCalls, sessions, dev, mu, pcWait >>
  /\ UNCHANGED callerVars

\* ------------------------------------------------------ tryConnectForever
\* cl.dev.Connect() under the device's plan, given the failures so far.
ConnectResult(plan, failsSoFar) ==
  IF plan.succeeds /\ failsSoFar >= plan.fails THEN "nil" ELSE "err"

\* The loop's init statement `err := cl.dev.Connect()`.
TryConnectForeverConnect ==
  /\ pcRetry = "connect"
  /\ LET e == ConnectResult(connectPlan, connectFails)
     IN /\ retryErr' = e
        /\ connectFails' = IF e = "err" THEN connectFails + 1 ELSE connectFails
        /\ connectOks' = IF e = "nil" THEN connectOks + 1 ELSE connectOks
  /\ connectCalls' = connectCalls + 1
  /\ pcRetry' = "check"
  /\ UNCHANGED << connectPlan, loopsStarted, coolDowns, signals, dev, mu, pcWait >>
  /\ UNCHANGED callerVars
  /\ UNCHANGED discVars

\* Variant of LoopCondition that leaves the loop whatever err is.
LoopConditionAlwaysExit(err) == "send"

\* Where the loop condition `err != nil` sends the goroutine.
LoopCondition(err) == IF err # "nil" THEN "sleep" ELSE "send"

\* The loop condition is evaluated.
TryConnectForeverCheck ==
  /\ pcRetry = "check"
  /\ pcRetry' = LoopCondition(retryErr)
  /\ UNCHANGED << retryErr, connectPlan, loopsStarted, connectCalls,
                  connectFails, connectOks, coolDowns, signals, dev, mu, pcWait >>
  /\ UNCHANGED callerVars
  /\ UNCHANGED discVars

\* Where the goroutine goes after the loop body: the for statement has no
\* post statement, so it goes back to the condition; err is not assigned.
AfterSleep == "check"

\* The loop body: log and time.Sleep(coolDown).
TryConnectForeverSleep ==
  /\ pcRetry = "sleep"
  /\ coolDowns' = IF coolDowns < MaxCoolDowns THEN coolDowns + 1 ELSE coolDowns
  /\ pcRetry' = AfterSleep
  /\ UNCHANGED << retryErr, connectPlan, loopsStarted, connectCalls,
                  connectFails, connectOks, signals, dev, mu, pcWait >>
  /\ UNCHANGED callerVars
  /\ UNCHANGED discVars

\* ------------------------------------------------------------ WaitConnect
\* A caller enters WaitConnect and blocks on `<-cl.done`.
WaitConnect(w) ==
  /\ pcWait[w] = "idle"
  /\ pcWait' = [pcWait EXCEPT ![w] = "blocked"]
  /\ UNCHANGED << dev, mu >>
  /\ UNCHANGED callerVars
  /\ UNCHANGED discVars
  /\ UNCHANGED retryVars

\* Variant of DoneHandOff with close(cl.done) in place of the send: every
\* receive completes.
DoneClosed(w) ==
  /\ pcRetry \in {"send", "exited"}
  /\ connectOks >= 1
  /\ pcWait[w] = "blocked"
  /\ pcRetry' = "exited"
  /\ pcWait' = [pcWait EXCEPT ![w] = "returned"]
  /\ signals' = 1
  /\ UNCHANGED << retryErr, connectPlan, loopsStarted, connectCalls,
                  connectFails, connectOks, coolDowns, dev, mu >>
  /\ UNCHANGED callerVars
  /\ UNCHANGED discVars

\* Variant of DoneHandOff with a non-blocking send: without a receiver the
\* value is dropped and tryConnectForever ends.
DoneNonBlocking(w) ==
  /\ pcRetry = "send"
  /\ pcRetry' = "exited"
  /\ IF pcWait[w] = "blocked"
       THEN /\ pcWait' = [pcWait EXCEPT ![w] = "returned"]
            /\ signals' = signals + 1
       ELSE UNCHANGED << pcWait, signals >>
  /\ UNCHANGED << retryErr, connectPlan, loopsStarted, connectCalls,
                  connectFails, connectOks, coolDowns, dev, mu >>
  /\ UNCHANGED callerVars
  /\ UNCHANGED discVars

\* cl.done is unbuffered: `cl.done <- struct{}{}` and one `<-cl.done`
\* complete together; tryConnectForever ends and WaitConnect returns.
DoneHandOff(w) ==
  /\ pcRetry = "send"
  /\ pcWait[w] = "blocked"
  /\ pcRetry' = "exited"
  /\ pcWait' = [pcWait EXCEPT ![w] = "returned"]
  /\ signals' = signals + 1
  /\ UNCHANGED << retryErr, connectPlan, loopsStarted, connectCalls,
                  connectFails, connectOks, coolDowns, dev, mu >>
  /\ UNCHANGED callerVars
  /\ UNCHANGED discVars

\* ---------------------------------------------------------- specification
CallerStep ==
  \/ \E cfg \in Configs : SearchAndConnect(cfg)
  \/ TryCacheConnectGetDevices
  \/ TryCacheConnectLoop
  \/ TryCacheConnectReturn
  \/ SearchAndConnectReturn

DiscoveryStep ==
  \/ TryDiscoveryConnectStart
  \/ \E ev \in Events, created \in BOOLEAN : TryDiscoveryConnectEvent(ev, created)
  \/ TryDiscoveryConnectClosed
  \/ TryDiscoveryConnectReturn

RetryStep ==
  \/ TryConnectForeverConnect
  \/ TryConnectForeverCheck
  \/ TryConnectForeverSleep

Next ==
  \/ CallerStep
  \/ DiscoveryStep
  \/ RetryStep
  \/ \E w \in Waiters : WaitConnect(w)
  \/ \E w \in Waiters : DoneHandOff(w)

Spec == Init /\ [][Next]_vars

\* The goroutines are scheduled fairly: the caller, the discovery goroutine's
\* own steps (not the registry's events), the retry loop, and the hand-off
\* on cl.done once both sides are ready.
FairSpec ==
  /\ Spec
  /\ WF_vars(CallerStep)
  /\ WF_vars(TryDiscoveryConnectStart)
  /\ WF_vars(TryDiscoveryConnectReturn)
  /\ WF_vars(RetryStep)
  /\ WF_vars(\E w \in Waiters : DoneHandOff(w))

\* Only the caller of SearchAndConnect is scheduled fairly: the background
\* goroutines may never run and the registry may never deliver an event.
CallerFairSpec == Spec /\ WF_vars(CallerStep)

\* ------------------------------------------------------------------ claims
SomeWaiterBlocked == \E w \in Waiters : pcWait[w] = "blocked"
SomeWaiterReturned == \E w \in Waiters : pcWait[w] = "returned"

\* C1: once a device satisfying the predicate has been selected (from the
\* cache or from the discovery stream) and handed to the retry loop, and its
\* Connect fails only finitely often before succeeding, a caller blocked in
\* WaitConnect eventually returns.
C1_WaitConnectEventuallyReturns ==
  (pcRetry # "none" /\ connectPlan.succeeds /\ SomeWaiterBlocked)
    ~> SomeWaiterReturned

\* C2: the retry loop re-attempts Connect after every failure: every
\* cooldown wait follows a failed attempt of its own and is followed by a new
\* attempt, so there are never more cooldown waits than failed attempts, and
\* when the loop is left Connect was called once more than it failed.
C2_ReconnectAfterEveryFailure ==
  /\ coolDowns <= connectFails
  /\ pcRetry \in {"send", "exited"} =>
       /\ connectFails = connectPlan.fails
       /\ connectCalls = connectPlan.fails + 1
       /\ signals <= 1

\* C3: the completion signal is sent at most once and only after a Connect
\* call on the selected candidate returned nil; no WaitConnect returns
\* before that, and none returns while no retry loop exists.
C3_SignalOnlyAfterSuccess ==
  /\ signals <= 1
  /\ pcRetry \in {"send", "exited"} =>
       /\ connectOks >= 1
       /\ retryErr = "nil"
       /\ dev # Nil
       /\ Matches(dev)
  /\ signals >= 1 => pcRetry = "exited"
  /\ \A w \in Waiters :
       pcWait[w] = "returned" => (signals = 1 /\ connectOks >= 1)
  /\ loopsStarted = 0 => ~SomeWaiterReturned

\* A WaitConnect caller has returned after a successful Connect.
C3_Witness ==
  /\ SomeWaiterReturned
  /\ SomeWaiterBlocked
  /\ connectOks = 1
  /\ signals = 1

C5_AtMostOneRetryLoop ==
  /\ loopsStarted <= 1
  /\ (pcRetry # "none") <=> (loopsStarted = 1)
  /\ cacheErr = "nil" =>
       /\ loopsStarted = 1
       /\ pcDisc = "none"
       /\ discoverCalls = 0
  /\ (pcDisc # "none" \/ discoverCalls > 0) => cacheErr = "ErrBtDeviceNotFound"
  /\ discErr = "nil" => loopsStarted = 1

\* The discovery scan found a match and launched the retry loop.
C5_Witness ==
  /\ discErr = "nil"
  /\ cacheErr = "ErrBtDeviceNotFound"
  /\ loopsStarted = 1
  /\ pcRetry # "none"

\* C6: with only the caller scheduled (no discovery event ever delivered,
\* no Connect ever returning), a SearchAndConnect call always returns.
C6_SearchAndConnectReturns ==
  (pcCaller # "idle") ~> (pcCaller = "returned")

\* SearchAndConnect returned nil while the discovery goroutine it spawned
\* has received nothing, and while no retry loop exists.
C6_Witness ==
  /\ pcCaller = "returned"
  /\ retVal = "nil"
  /\ pcDisc = "recv"
  /\ received = Empty
  /\ pcRetry = "none"

ConfigErrors == {"ErrCleanMac", "ErrMissingCriterion", "ErrRegexCompile"}

\* A malformed address, an unparsable pattern with no address, or neither.
IsConfigError(cfg) ==
  \/ Len(cfg.DeviceAddress) > 0 /\ ~MacWellFormed(cfg.DeviceAddress)
  \/ /\ Len(cfg.DeviceAddress) = 0
     /\ Len(cfg.DeviceRegex) > 0
     /\ ~RegexCompiles(cfg.DeviceRegex)
  \/ Len(cfg.DeviceAddress) = 0 /\ Len(cfg.DeviceRegex) = 0

\* C7: a SearchAndConnect call with a configuration error returns a
\* non-nil error at once, and after such a return there has been no cache
\* enumeration, no discovery session, no retry loop, and cl.dev is unchanged.
C7_ConfigErrorPrecedesScan ==
  [][ /\ \A cfg \in Configs :
           (SearchAndConnect(cfg) /\ IsConfigError(cfg)) =>
             /\ retVal' \in ConfigErrors
             /\ pcCaller' = "returned"
             /\ dev' = dev
      /\ retVal' \in ConfigErrors =>
           /\ pcCaller' = "returned"
           /\ getDevicesCalls' = 0
           /\ discoverCalls' = 0
           /\ sessions' = 0
           /\ pcDisc' = "none"
           /\ loopsStarted' = 0
           /\ pcRetry' = "none"
           /\ dev' = Nil
    ]_vars

\* SearchAndConnect returned a configuration error.
C7_Witness ==
  /\ retVal = "ErrRegexCompile"
  /\ pcCaller = "returned"
  /\ SomeWaiterBlocked

Macs == { d.addr : d \in Devices } \cup AddressInputs
Names == { d.name : d \in Devices }

\* C8: with an address set (whatever the pattern) the configuration is
\* accepted and the predicate is true iff the candidate's address equals
\* the normalized target; with only a pattern set it is true iff the name
\* matches the pattern; with neither, the call fails with a missing-criterion
\* error.
C8_CriterionPrecedence ==
  [][ \A cfg \in Configs :
        SearchAndConnect(cfg) =>
          /\ (Len(cfg.DeviceAddress) > 0 /\ MacWellFormed(cfg.DeviceAddress)) =>
               /\ pcCaller' = "GetDevices"
               /\ retVal' = "none"
               /\ \A mac \in Macs, name \in Names :
                    MatchFunc(matchFunc', config', mac, name)
                      <=> (mac = CleanMacAddress(cfg.DeviceAddress).mac)
          /\ ( /\ Len(cfg.DeviceAddress) = 0
               /\ Len(cfg.DeviceRegex) > 0
               /\ RegexCompiles(cfg.DeviceRegex) ) =>
               /\ pcCaller' = "GetDevices"
               /\ retVal' = "none"
               /\ \A mac \in Macs, name \in Names :
                    MatchFunc(matchFunc', config', mac, name)
                      <=> RegexMatchString(cfg.DeviceRegex, name)
          /\ (Len(cfg.DeviceAddress) = 0 /\ Len(cfg.DeviceRegex) = 0) =>
               /\ retVal' = "ErrMissingCriterion"
               /\ pcCaller' = "returned"
    ]_vars

\* A configuration with an address and an (unparsable) pattern was accepted
\* and the address rule is in force.
C8_Witness ==
  /\ pcCaller = "GetDevices"
  /\ matchFunc = "mac"
  /\ config.DeviceAddress = <<"A", ":", "B">>
  /\ config.DeviceRegex = <<"(">>

\* Indices of the cached devices that satisfy the predicate.
MatchIdx == { i \in 1..Len(devices) : Matches(devices[i]) }
FirstMatch == CHOOSE i \in MatchIdx : \A j \in MatchIdx : i <= j
CacheScanned ==
  \/ pcCaller = "cacheAfter"
  \/ pcCaller = "dispatch" /\ cacheErr # "ErrGetDevices"

\* C9: the cache scan selects the first cached device, in enumeration
\* order, that satisfies the predicate, evaluates no device after it and
\* hands it to the retry loop; without a match it evaluates every device
\* and ends with ErrBtDeviceNotFound and an empty candidate slot.
C9_CacheFirstMatch ==
  /\ pcCaller = "cacheLoop" =>
       /\ dev = Nil
       /\ evaluated = 1..(idx - 1)
       /\ \A i \in evaluated : ~Matches(devices[i])
  /\ CacheScanned =>
       IF MatchIdx # {}
         THEN /\ dev = devices[FirstMatch]
              /\ evaluated = 1..FirstMatch
         ELSE /\ dev = Nil
              /\ evaluated = 1..Len(devices)
  /\ (pcCaller = "dispatch" /\ cacheErr # "ErrGetDevices") =>
       IF MatchIdx # {}
         THEN /\ cacheErr = "nil"
              /\ pcRetry # "none"
              /\ loopsStarted = 1
         ELSE /\ cacheErr = "ErrBtDeviceNotFound"
              /\ pcRetry = "none"
              /\ loopsStarted = 0

\* Three cached devices of which the second is the first match: it was
\* selected and handed over, and the third was not evaluated.
C9_Witness ==
  /\ pcCaller = "dispatch"
  /\ Len(devices) = 3
  /\ ~Matches(devices[1])
  /\ Matches(devices[2])
  /\ Matches(devices[3])
  /\ devices[3] # devices[2]
  /\ dev = devices[2]
  /\ evaluated = {1, 2}
  /\ pcRetry # "none"

\* An event whose device handle was created and satisfies the predicate.
IsMatchEntry(e) == e.kind = "created" /\ Matches(e.device)

\* C10: discovery events are handled in arrival order: a removed event, an
\* added event whose handle cannot be created and an added event whose device
\* does not match all leave the scan running with an empty slot; the scan
\* ends on the first created, matching device, which is the candidate handed
\* to the retry loop, and takes no event after it.
C10_DiscoveryFirstMatch ==
  [][ /\ \A ev \in Events, created \in BOOLEAN :
           TryDiscoveryConnectEvent(ev, created) =>
             IF IsMatchEntry(Received(ev, created))
               THEN pcDisc' = "after" /\ dev' = ev.Path
               ELSE pcDisc' = "recv" /\ dev' = Nil
      /\ pcDisc' = "recv" =>
           /\ dev' = Nil
           /\ \A i \in 1..Len(received') : ~IsMatchEntry(received'[i])
      /\ pcDisc' = "after" =>
           /\ \A i \in 1..(Len(received') - 1) : ~IsMatchEntry(received'[i])
           /\ IF Len(received') > 0 /\ IsMatchEntry(received'[Len(received')])
                THEN dev' = received'[Len(received')].device
                ELSE dev' = Nil
      /\ pcDisc' \notin {"recv", "after"} => received' = Empty
      /\ discErr' = "nil" =>
           /\ dev' # Nil
           /\ Matches(dev)'
           /\ loopsStarted' = 1
           /\ pcRetry' # "none"
    ]_vars

\* A non-matching added event, a removed event, then a matching added
\* event: the third event's device is the candidate.
C10_Witness ==
  /\ pcDisc = "after"
  /\ Len(received) = 3
  /\ received[1].kind = "created"
  /\ received[2].kind = "removed"
  /\ IsMatchEntry(received[3])
  /\ dev = received[3].device

\* C11: a discovery session that was started has its cancellation handle
\* invoked exactly once when the discovery phase is left, whether a match
\* was found or the stream was closed without one; the handle is not
\* invoked while the scan runs, and never when the session failed to start.
C11_DiscoveryCancelledOnce ==
  /\ cancelCalls <= sessions
  /\ sessions <= 1
  /\ pcDisc \in {"recv", "after"} => (sessions = 1 /\ cancelCalls = 0)
  /\ pcDisc = "returned" => cancelCalls = sessions
  /\ discErr \in {"nil", "ErrBtDeviceNotFound"} =>
       (sessions = 1 /\ cancelCalls = 1)
  /\ discErr = "ErrDiscoverStart" => (sessions = 0 /\ cancelCalls = 0)

\* The stream was closed without a match and the session was cancelled.
C11_Witness ==
  /\ pcDisc = "returned"
  /\ discErr = "ErrBtDeviceNotFound"
  /\ sessions = 1
  /\ cancelCalls = 1

CacheScanActive == pcCaller \in {"GetDevices", "cacheLoop", "cacheAfter"}
DiscoveryActive == pcDisc \in {"start", "recv", "after"}

\* C12: discovery is started only after the cache scan has ended with
\* ErrBtDeviceNotFound; after a cache match or another cache error it is
\* never started; the two scans are never active together.
C12_CacheBeforeDiscovery ==
  /\ (pcDisc # "none" \/ discoverCalls > 0 \/ sessions > 0) =>
       /\ cacheErr = "ErrBtDeviceNotFound"
       /\ getDevicesCalls = 1
       /\ pcCaller = "returned"
  /\ cacheErr \in {"nil", "ErrGetDevices"} =>
       /\ pcDisc = "none"
       /\ discoverCalls = 0
       /\ sessions = 0
  /\ ~(CacheScanActive /\ DiscoveryActive)

\* A discovery session runs after a cache scan that found nothing.
C12_Witness ==
  /\ pcDisc = "recv"
  /\ sessions = 1
  /\ cacheErr = "ErrBtDeviceNotFound"
  /\ Len(received) = 1

NoMatchReceived == \A i \in 1..Len(received) : ~IsMatchEntry(received[i])

\* C13: when the event stream is closed without a matching device,
\* tryDiscoveryConnect ends with ErrBtDeviceNotFound, which is only logged:
\* no retry loop is started, cl.dev is nil, discovery is not started again,
\* SearchAndConnect has returned nil, and cl.done is never sent.
C13_NotFoundOnlyLogged ==
  [][ /\ (TryDiscoveryConnectReturn /\ NoMatchReceived) =>
           /\ discErr' = "ErrBtDeviceNotFound"
           /\ UNCHANGED retryVars
      /\ discErr' = "ErrBtDeviceNotFound" =>
           /\ pcDisc' = "returned"
           /\ pcRetry' = "none"
           /\ loopsStarted' = 0
           /\ dev' = Nil
           /\ discoverCalls' = 1
           /\ sessions' = 1
           /\ pcCaller' = "returned"
           /\ retVal' = "nil"
           /\ signals' = 0
           /\ \A w \in Waiters : pcWait'[w] # "returned"
    ]_vars

\* The stream was closed after a device that does not match; a WaitConnect
\* caller is blocked.
C13_Witness ==
  /\ discErr = "ErrBtDeviceNotFound"
  /\ pcDisc = "returned"
  /\ retVal = "nil"
  /\ SomeWaiterBlocked
  /\ ~SomeWaiterReturned

\* C14: every assignment to cl.dev, by the cache scan or by the discovery
\* scan, is made while cl.mu is held.
C14_DevAssignedUnderLock ==
  [][ dev' # dev => (mu /\ mu') ]_vars

\* C15: once the retry loop has been launched no step of the cache scan or
\* of the discovery scan can run, so cl.dev is not read or written by them
\* again: it stays the selected device, which satisfies the predicate, for
\* the whole run of the loop.
C15_ExclusiveAfterHandOff ==
  [][ /\ pcRetry # "none" =>
           /\ dev' = dev
           /\ pcRetry' # "none"
      /\ pcRetry' # "none" =>
           /\ dev' # Nil
           /\ Matches(dev)'
           /\ ~CacheScanActive'
           /\ ~DiscoveryActive'
    ]_vars

\* The loop launched by the discovery scan has called Connect on the
\* selected device.
C15_Witness ==
  /\ pcRetry = "sleep"
  /\ connectCalls = 1
  /\ pcDisc = "returned"
  /\ discErr = "nil"
  /\ Matches(dev)

\* C16: when adapter.GetDevices fails, SearchAndConnect returns a non-nil
\* error that is not ErrBtDeviceNotFound; no discovery goroutine and no
\* retry loop is started and cl.dev stays nil.
C16_CacheListErrorReturned ==
  cacheErr = "ErrGetDevices" =>
    /\ pcCaller \in {"dispatch", "returned"}
    /\ pcCaller = "returned" => retVal = "ErrCacheConnect"
    /\ retVal \in {"none", "ErrCacheConnect"}
    /\ pcDisc = "none"
    /\ discoverCalls = 0
    /\ sessions = 0
    /\ pcRetry = "none"
    /\ loopsStarted = 0
    /\ dev = Nil
    /\ evaluated = {}

\* SearchAndConnect has returned the error of a failed GetDevices.
C16_Witness ==
  /\ cacheErr = "ErrGetDevices"
  /\ pcCaller = "returned"
  /\ retVal = "ErrCacheConnect"
  /\ getDevicesCalls = 1

Returned == { w \in Waiters : pcWait[w] = "returned" }

\* C17: of all WaitConnect calls at most one ever returns; once one has
\* returned, every other call that is blocked stays blocked.
C17_SingleReceiver ==
  [][ /\ Cardinality(Returned') <= 1
      /\ \A w \in Waiters :
           (pcWait[w] = "blocked" /\ Returned # {}) => pcWait'[w] = "blocked"
    ]_vars

\* One WaitConnect call has returned, every other one is blocked and
\* tryConnectForever has ended.
C17_Witness ==
  /\ Cardinality(Returned) = 1
  /\ \A w \in Waiters \ Returned : pcWait[w] = "blocked"
  /\ pcRetry = "exited"

\* C18: after a successful Connect tryConnectForever stays blocked on the
\* send until a WaitConnect caller takes the value (it neither drops the
\* value nor ends), and once a caller is blocked in WaitConnect some caller
\* returns.
C18_SignalKeptForLateWaiter ==
  /\ [][ pcRetry = "send" =>
           \/ pcRetry' = "send" /\ signals' = signals
           \/ /\ pcRetry' = "exited"
              /\ signals' = signals + 1
              /\ \E w \in Waiters :
                   pcWait[w] = "blocked" /\ pcWait'[w] = "returned"
       ]_vars
  /\ (pcRetry = "send" /\ SomeWaiterBlocked) ~> SomeWaiterReturned

\* Connect has succeeded and no caller has entered WaitConnect yet.
C18_Witness ==
  /\ pcRetry = "send"
  /\ connectOks = 1
  /\ \A w \in Waiters : pcWait[w] = "idle"
  /\ signals = 0

====
